---- MODULE Spec2Model ----
(***************************************************************************)
(* Model of advanced-vector/vector.h: RawMemory<T> (an owned block of raw  *)
(* slots) and Vector<T> (a RawMemory plus the count of live elements).     *)
(*                                                                         *)
(* The heap maps a block address to its slots.  A slot is Uninit (raw      *)
(* memory), a value of T, or MovedFrom (a live element that was the source *)
(* of a move).  Every member function is an operator from world to world;  *)
(* a world is the heap, the vectors and the registers of the running call  *)
(* (the pending exception, the local RawMemory new_data, the returned      *)
(* pointer).  Element operations and operator new may throw: the call's    *)
(* fuse says which throwing operation of the call, counted in execution    *)
(* order, throws (0: none).  A step that the language does not define or   *)
(* that loses an object (a constructor run on a live element, a use or a   *)
(* destruction of a raw slot, a block freed twice or freed with a live     *)
(* element in it) is recorded in the world's flags.                        *)
(***************************************************************************)
EXTENDS Integers, Sequences, FiniteSets, TLC

\* ---- bounds of the model ----
MaxCap == 4
MaxPairCap == 3
MaxMixCap == 2
MaxFault == 4
MaxCalls == 5

\* ---- slot contents and addresses ----
Uninit == -2
MovedFrom == -1
Default == 0
nullptr == 0

\* The container never inspects an element: T() and one other value tell every
\* position of a sequence apart.
Values == {Default, Default + 1}
Vecs == {"a", "b"}
Other(v) == IF v = "a" THEN "b" ELSE "a"

None == "none"
BadAlloc == "bad_alloc"
ElemExc == "element"
Terminate == "terminate"

\* Element types, by the capabilities the code asks about.
IntLike == [copy_constructible |-> TRUE, nothrow_move_constructible |-> TRUE,
            nothrow_copy_constructible |-> TRUE, nothrow_move_assignable |-> TRUE,
            nothrow_copy_assignable |-> TRUE]
StringLike == [copy_constructible |-> TRUE, nothrow_move_constructible |-> TRUE,
               nothrow_copy_constructible |-> FALSE, nothrow_move_assignable |-> TRUE,
               nothrow_copy_assignable |-> FALSE]
ThrowingMove == [copy_constructible |-> TRUE, nothrow_move_constructible |-> FALSE,
                 nothrow_copy_constructible |-> FALSE, nothrow_move_assignable |-> FALSE,
                 nothrow_copy_assignable |-> FALSE]
Types == {IntLike, StringLike, ThrowingMove}
\* every combination of the capabilities
AllTypes == [copy_constructible : BOOLEAN, nothrow_move_constructible : BOOLEAN,
             nothrow_copy_constructible : BOOLEAN, nothrow_move_assignable : BOOLEAN,
             nothrow_copy_assignable : BOOLEAN]

VARIABLES heap, vec, T, last, model, pushes, pops
vars == <<heap, vec, T, last, model, pushes, pops>>

NullMemory == [buffer |-> nullptr, capacity |-> 0]
NoVector == [alive |-> FALSE, data |-> NullMemory, size |-> 0]
EmptyVector == [alive |-> TRUE, data |-> NullMemory, size |-> 0]
NoRet == [buffer |-> nullptr, index |-> 0]

\* ---- which element operations may throw, and the move-or-copy policy ----
CopyThrows == ~T.nothrow_copy_constructible
MoveThrows == ~T.nothrow_move_constructible
MoveAssignThrows == ~T.nothrow_move_assignable
CopyAssignThrows == ~T.nothrow_copy_assignable
\* T(std::forward<Args>(args)...): a copy for a copyable T, a move otherwise
ArgsThrows == IF T.copy_constructible THEN CopyThrows ELSE MoveThrows
MovePolicy == T.nothrow_move_constructible \/ ~T.copy_constructible

\* ---- exceptions ----
Throws(w, can) == can /\ w.fuse = 1
Tick(w, can) == IF can /\ w.fuse > 0 THEN [w EXCEPT !.fuse = @ - 1] ELSE w
Throw(w, e) == [w EXCEPT !.exc = e, !.fuse = 0]

\* ---- steps that go wrong without an exception ----
ConstructOnLive == "constructor run on a live element"
UseOfRaw == "use of a slot holding no element"
DestroyOfRaw == "destructor run on a slot holding no element"
LeakedElement == "block freed with a live element"
DoubleFree == "block freed twice"

Flag(w, cond, name) == IF cond THEN [w EXCEPT !.flags = @ \cup {name}] ELSE w

\* ---- slots ----
Read(w, b, i) == w.heap[b][i + 1]
Write(w, b, i, x) == [w EXCEPT !.heap[b][i + 1] = x]
Raw(w, b, i) == Read(w, b, i) = Uninit

\* new (p) T(x)
Construct(w, b, i, x, can) ==
    IF w.exc # None THEN w
    ELSE IF Throws(w, can) THEN Throw(w, ElemExc)
    ELSE Write(Flag(Tick(w, can), ~Raw(w, b, i), ConstructOnLive), b, i, x)

\* new (p) T(std::move(*q))
MoveConstruct(w, sb, si, db, di) ==
    IF w.exc # None THEN w
    ELSE IF Throws(w, MoveThrows) THEN Throw(w, ElemExc)
    ELSE LET u == Flag(Flag(Tick(w, MoveThrows), Raw(w, sb, si), UseOfRaw),
                       ~Raw(w, db, di), ConstructOnLive)
         IN Write(Write(u, db, di, Read(w, sb, si)), sb, si, MovedFrom)

\* *p = x
Assign(w, b, i, x, can) ==
    IF w.exc # None THEN w
    ELSE IF Throws(w, can) THEN Throw(w, ElemExc)
    ELSE Write(Flag(Tick(w, can), Raw(w, b, i) \/ x = Uninit, UseOfRaw), b, i, x)

\* *p = std::move(*q)
MoveAssign(w, sb, si, db, di) ==
    IF w.exc # None THEN w
    ELSE IF Throws(w, MoveAssignThrows) THEN Throw(w, ElemExc)
    ELSE LET u == Flag(Tick(w, MoveAssignThrows), Raw(w, sb, si) \/ Raw(w, db, di),
                       UseOfRaw)
         IN Write(Write(u, db, di, Read(w, sb, si)), sb, si, MovedFrom)

\* std::destroy_n(p, n): destructors do not throw and run during unwinding
destroy_n(w, b, i, n) ==
    IF n = 0 THEN w
    ELSE [Flag(w, \E j \in i..(i + n - 1) : Raw(w, b, j), DestroyOfRaw)
             EXCEPT !.heap[b] =
                 [s \in DOMAIN @ |-> IF s - 1 \in i..(i + n - 1) THEN Uninit ELSE @[s]]]

destroy_at(w, b, i) == destroy_n(w, b, i, 1)

RECURSIVE CopyLoop(_, _, _, _, _, _, _)
CopyLoop(w, sb, si, n, db, di, j) ==
    IF j = n THEN w
    ELSE IF Throws(w, CopyThrows) THEN Throw(destroy_n(w, db, di, j), ElemExc)
    ELSE CopyLoop(Construct(Flag(w, Raw(w, sb, si + j), UseOfRaw),
                            db, di + j, Read(w, sb, si + j), CopyThrows),
                  sb, si, n, db, di, j + 1)

\* std::uninitialized_copy_n(first, n, d_first): on a throw the copies made are destroyed
uninitialized_copy_n(w, sb, si, n, db, di) ==
    IF w.exc # None THEN w ELSE CopyLoop(w, sb, si, n, db, di, 0)

RECURSIVE MoveLoop(_, _, _, _, _, _, _)
MoveLoop(w, sb, si, n, db, di, j) ==
    IF j = n THEN w
    ELSE IF Throws(w, MoveThrows) THEN Throw(destroy_n(w, db, di, j), ElemExc)
    ELSE MoveLoop(MoveConstruct(w, sb, si + j, db, di + j), sb, si, n, db, di, j + 1)

\* std::uninitialized_move_n(first, n, d_first)
uninitialized_move_n(w, sb, si, n, db, di) ==
    IF w.exc # None THEN w ELSE MoveLoop(w, sb, si, n, db, di, 0)

RECURSIVE ValueLoop(_, _, _, _, _)
ValueLoop(w, b, i, n, j) ==
    IF j = n THEN w
    ELSE IF Throws(w, CopyThrows) THEN Throw(destroy_n(w, b, i, j), ElemExc)
    ELSE ValueLoop(Construct(w, b, i + j, Default, CopyThrows), b, i, n, j + 1)

\* std::uninitialized_value_construct_n(first, n)
uninitialized_value_construct_n(w, b, i, n) ==
    IF w.exc # None THEN w ELSE ValueLoop(w, b, i, n, 0)

\* std::copy(first, last, d_first): copy assignment, front to back
RECURSIVE copy(_, _, _, _, _, _)
copy(w, sb, first, lst, db, d) ==
    IF w.exc # None \/ first >= lst THEN w
    ELSE copy(Assign(w, db, d, Read(w, sb, first), CopyAssignThrows),
              sb, first + 1, lst, db, d + 1)

\* std::move(first, last, d_first): move assignment, front to back
RECURSIVE move(_, _, _, _, _, _)
move(w, sb, first, lst, db, d) ==
    IF w.exc # None \/ first >= lst THEN w
    ELSE move(MoveAssign(w, sb, first, db, d), sb, first + 1, lst, db, d + 1)

\* std::move_backward(first, last, d_last): move assignment, back to front
RECURSIVE move_backward(_, _, _, _, _, _)
move_backward(w, sb, first, lst, db, dlast) ==
    IF w.exc # None \/ first >= lst THEN w
    ELSE move_backward(MoveAssign(w, sb, lst - 1, db, dlast - 1),
                       sb, first, lst - 1, db, dlast - 1)

\* ---- args... of EmplaceBack and Emplace: one object of type T ----
\* an object outside the vector holding x (const T& or T&&)
Outside(x) == [buffer |-> nullptr, index |-> 0, value |-> x, rvalue |-> FALSE]
\* the element at p + j of the block p: v[j], or std::move(v[j]) when rvalue
Element(p, j, rvalue) == [buffer |-> p, index |-> j, value |-> Default, rvalue |-> rvalue]

\* new (q) T(std::forward<Args>(args)...): the argument is read when T's
\* constructor runs, from wherever it then is
ConstructFrom(w, b, i, a) ==
    IF a.buffer = nullptr THEN Construct(w, b, i, a.value, ArgsThrows)
    ELSE IF a.rvalue THEN MoveConstruct(w, a.buffer, a.index, b, i)
    ELSE Construct(Flag(w, Raw(w, a.buffer, a.index), UseOfRaw),
                   b, i, Read(w, a.buffer, a.index), CopyThrows)

\* ---- RawMemory<T> ----
\* the address operator new returns: a block that is not in use
NewBlock(h) ==
    CHOOSE b \in 1..(Cardinality(DOMAIN h) + 1) :
        b \notin DOMAIN h /\ \A c \in 1..(b - 1) : c \in DOMAIN h

\* RawMemory::Allocate(n), the result kept in the caller's local new_data
Allocate(w, n) ==
    IF w.exc # None THEN w
    ELSE IF n = 0 THEN [w EXCEPT !.new_data = [buffer |-> nullptr, capacity |-> 0]]
    ELSE IF Throws(w, TRUE) THEN Throw(w, BadAlloc)
    ELSE LET b == NewBlock(w.heap)
             u == Tick(w, TRUE)
         IN [u EXCEPT !.heap = (b :> [s \in 1..n |-> Uninit]) @@ @,
                      !.new_data = [buffer |-> b, capacity |-> n]]

\* RawMemory::Deallocate(buf): operator delete; a null pointer is ignored
Deallocate(w, buf) ==
    IF buf = nullptr THEN w
    ELSE IF buf \notin DOMAIN w.heap THEN Flag(w, TRUE, DoubleFree)
    ELSE [Flag(w, \E s \in DOMAIN w.heap[buf] : w.heap[buf][s] # Uninit, LeakedElement)
             EXCEPT !.heap = [b \in DOMAIN @ \ {buf} |-> @[b]]]

\* ~RawMemory() of the local new_data, at scope exit (normal or unwinding)
DestroyNewData(w) ==
    [Deallocate(w, w.new_data.buffer) EXCEPT !.new_data = NullMemory]

\* ---- Vector<T> ----
Buf(w, v) == w.vec[v].data.buffer
Cap(w, v) == w.vec[v].data.capacity
Size(w, v) == w.vec[v].size
\* growth by one slot instead of doubling
GrownCapacity_ByOne(n) == n + 1

\* size_ == 0 ? 1 : size_ * 2
GrownCapacity(n) == IF n = 0 THEN 1 ELSE n * 2

\* a SwapRealocation that leaves the last element behind
SwapRealocation_DropsLast(w, v) ==
    LET n == Size(w, v)
        m == IF n = 0 THEN 0 ELSE n - 1
        w1 == IF MovePolicy
              THEN uninitialized_move_n(w, Buf(w, v), 0, m, w.new_data.buffer, 0)
              ELSE uninitialized_copy_n(w, Buf(w, v), 0, m, w.new_data.buffer, 0)
        w2 == destroy_n(w1, Buf(w, v), 0, n)
    IN IF w1.exc # None THEN w1
       ELSE [w2 EXCEPT !.vec[v].data = w2.new_data, !.new_data = w2.vec[v].data]

\* a SwapRealocation that moves whatever T's move constructor promises
SwapRealocation_AlwaysMoves(w, v) ==
    LET n == Size(w, v)
        w1 == uninitialized_move_n(w, Buf(w, v), 0, n, w.new_data.buffer, 0)
        w2 == destroy_n(w1, Buf(w, v), 0, n)
    IN IF w1.exc # None THEN w1
       ELSE [w2 EXCEPT !.vec[v].data = w2.new_data, !.new_data = w2.vec[v].data]

\* Vector::SwapRealocation(new_data)
SwapRealocation(w, v) ==
    LET n == Size(w, v)
        w1 == IF MovePolicy
              THEN uninitialized_move_n(w, Buf(w, v), 0, n, w.new_data.buffer, 0)
              ELSE uninitialized_copy_n(w, Buf(w, v), 0, n, w.new_data.buffer, 0)
        w2 == destroy_n(w1, Buf(w, v), 0, n)
    IN IF w1.exc # None THEN w1
       ELSE [w2 EXCEPT !.vec[v].data = w2.new_data, !.new_data = w2.vec[v].data]

\* a Reserve that destroys the elements before it asks for the new block
Reserve_DestroysFirst(w, v, new_capacity) ==
    IF w.exc # None \/ new_capacity <= Cap(w, v) THEN w
    ELSE LET w1 == Allocate(destroy_n(w, Buf(w, v), 0, Size(w, v)), new_capacity)
         IN IF w1.exc # None THEN w1 ELSE DestroyNewData(SwapRealocation(w1, v))

\* a Reserve that reallocates when new_capacity == Capacity()
Reserve_Strict(w, v, new_capacity) ==
    IF w.exc # None \/ new_capacity < Cap(w, v) THEN w
    ELSE LET w1 == Allocate(w, new_capacity)
         IN IF w1.exc # None THEN w1 ELSE DestroyNewData(SwapRealocation(w1, v))

\* Vector::Reserve(new_capacity)
Reserve(w, v, new_capacity) ==
    IF w.exc # None \/ new_capacity <= Cap(w, v) THEN w
    ELSE LET w1 == Allocate(w, new_capacity)
         IN IF w1.exc # None THEN w1 ELSE DestroyNewData(SwapRealocation(w1, v))

\* a Resize that destroys the front elements when shrinking
Resize_DestroysFront(w, v, new_size) ==
    IF Size(w, v) = new_size THEN w
    ELSE IF Size(w, v) > new_size
    THEN [destroy_n(w, Buf(w, v), 0, Size(w, v) - new_size)
             EXCEPT !.vec[v].size = new_size]
    ELSE LET w1 == Reserve(w, v, new_size)
             w2 == uninitialized_value_construct_n(w1, Buf(w1, v), Size(w, v),
                                                   new_size - Size(w, v))
         IN IF w2.exc # None THEN w2 ELSE [w2 EXCEPT !.vec[v].size = new_size]

\* Vector::Resize(new_size)
Resize(w, v, new_size) ==
    IF Size(w, v) = new_size THEN w
    ELSE IF Size(w, v) > new_size
    THEN [destroy_n(w, Buf(w, v), new_size, Size(w, v) - new_size)
             EXCEPT !.vec[v].size = new_size]
    ELSE LET w1 == Reserve(w, v, new_size)
             w2 == uninitialized_value_construct_n(w1, Buf(w1, v), Size(w, v),
                                                   new_size - Size(w, v))
         IN IF w2.exc # None THEN w2 ELSE [w2 EXCEPT !.vec[v].size = new_size]

\* a PopBack that lowers size_ and leaves the element in its slot
PopBack_KeepsElement(w, v) ==
    IF Size(w, v) # 0 THEN [w EXCEPT !.vec[v].size = @ - 1] ELSE w

\* Vector::PopBack()
PopBack(w, v) ==
    IF Size(w, v) # 0
    THEN [destroy_at(w, Buf(w, v), Size(w, v) - 1) EXCEPT !.vec[v].size = @ - 1]
    ELSE w

\* Vector::EmplaceBack(args...)
EmplaceBack(w, v, x) ==
    LET n == Size(w, v)
        w1 == IF n = Cap(w, v)
              THEN LET a == Allocate(w, GrownCapacity(n))
                       c == ConstructFrom(a, a.new_data.buffer, n, x)
                   IN IF a.exc # None THEN a ELSE DestroyNewData(SwapRealocation(c, v))
              ELSE ConstructFrom(w, Buf(w, v), n, x)
    IN IF w1.exc # None THEN w1
       ELSE [w1 EXCEPT !.vec[v].size = n + 1,
                       !.ret = [buffer |-> Buf(w1, v), index |-> n]]

\* a Realocation that puts the suffix at the new element's own index
Realocation_SuffixAtK(w, v, position_new_element, x) ==
    LET n == Size(w, v)
        k == position_new_element
        a == Allocate(w, GrownCapacity(n))
        nb == a.new_data.buffer
        c == ConstructFrom(a, nb, k, x)
        m1 == IF MovePolicy THEN uninitialized_move_n(c, Buf(w, v), 0, k, nb, 0)
                            ELSE uninitialized_copy_n(c, Buf(w, v), 0, k, nb, 0)
        m2 == IF MovePolicy THEN uninitialized_move_n(m1, Buf(w, v), k, n - k, nb, k)
                            ELSE uninitialized_copy_n(m1, Buf(w, v), k, n - k, nb, k)
        d == destroy_n(m2, Buf(w, v), 0, n)
    IN IF a.exc # None THEN a
       ELSE IF m2.exc # None THEN DestroyNewData(m2)
       ELSE DestroyNewData([d EXCEPT !.vec[v].data = d.new_data,
                                     !.new_data = d.vec[v].data])

\* Vector::Realocation(position_new_element, args...)
Realocation(w, v, position_new_element, x) ==
    LET n == Size(w, v)
        k == position_new_element
        a == Allocate(w, GrownCapacity(n))
        nb == a.new_data.buffer
        c == ConstructFrom(a, nb, k, x)
        \* a throw in the element transfer leaves the new element constructed
        m1 == IF MovePolicy THEN uninitialized_move_n(c, Buf(w, v), 0, k, nb, 0)
                            ELSE uninitialized_copy_n(c, Buf(w, v), 0, k, nb, 0)
        m2 == IF MovePolicy THEN uninitialized_move_n(m1, Buf(w, v), k, n - k, nb, k + 1)
                            ELSE uninitialized_copy_n(m1, Buf(w, v), k, n - k, nb, k + 1)
        d == destroy_n(m2, Buf(w, v), 0, n)
    IN IF a.exc # None THEN a
       ELSE IF m2.exc # None THEN DestroyNewData(m2)
       ELSE DestroyNewData([d EXCEPT !.vec[v].data = d.new_data,
                                     !.new_data = d.vec[v].data])

\* T tmp(std::forward<Args>(args)...): the value of the local and the world after
\* its construction
ValueOf(w, a) == IF a.buffer = nullptr THEN a.value ELSE Read(w, a.buffer, a.index)
ConstructLocal(w, a) ==
    LET can == IF a.buffer = nullptr THEN ArgsThrows
               ELSE IF a.rvalue THEN MoveThrows ELSE CopyThrows
        u == Flag(Tick(w, can), a.buffer # nullptr /\ ValueOf(w, a) = Uninit, UseOfRaw)
    IN IF w.exc # None THEN w
       ELSE IF Throws(w, can) THEN Throw(w, ElemExc)
       ELSE IF a.buffer # nullptr /\ a.rvalue THEN Write(u, a.buffer, a.index, MovedFrom)
       ELSE u

\* a Moving that constructs tmp from args after the elements were shifted
Moving_ReadsArgsLast(w, v, position_new_element, x) ==
    LET n == Size(w, v)
        k == position_new_element
        b == Buf(w, v)
        w1 == MoveConstruct(w, b, n - 1, b, n)
        w2 == move_backward(w1, b, k, n - 1, b, n)
        t == ConstructLocal(w2, x)
    IN Assign(t, b, k, ValueOf(w2, x), MoveAssignThrows)

\* Vector::Moving(position_new_element, args...)
Moving(w, v, position_new_element, x) ==
    LET n == Size(w, v)
        k == position_new_element
        b == Buf(w, v)
        \* T tmp(args...)
        t == ConstructLocal(w, x)
        w1 == MoveConstruct(t, b, n - 1, b, n)
        w2 == move_backward(w1, b, k, n - 1, b, n)
    IN Assign(w2, b, k, ValueOf(w, x), MoveAssignThrows)

\* Vector::Emplace(pos, args...), pos == cbegin() + k
Emplace(w, v, k, x) ==
    IF k = Size(w, v) THEN EmplaceBack(w, v, x)
    ELSE LET w1 == IF Size(w, v) = Cap(w, v) THEN Realocation(w, v, k, x)
                                             ELSE Moving(w, v, k, x)
         IN IF w1.exc # None THEN w1
            ELSE [w1 EXCEPT !.vec[v].size = @ + 1,
                            !.ret = [buffer |-> Buf(w1, v), index |-> k]]

\* an Erase whose shift stops one element short of end()
Erase_ShiftStopsShort(w, v, k) ==
    LET n == Size(w, v)
        b == Buf(w, v)
        w1 == IF MovePolicy THEN move(w, b, k + 1, n - 1, b, k)
                            ELSE copy(w, b, k + 1, n - 1, b, k)
        w2 == destroy_at(w1, b, n - 1)
    IN IF w1.exc # None
       THEN (IF T.nothrow_move_assignable THEN Throw(w1, Terminate) ELSE w1)
       ELSE [w2 EXCEPT !.vec[v].size = n - 1, !.ret = [buffer |-> b, index |-> k]]

\* Vector::Erase(pos), pos == cbegin() + k; noexcept(is_nothrow_move_assignable_v<T>)
Erase(w, v, k) ==
    LET n == Size(w, v)
        b == Buf(w, v)
        w1 == IF MovePolicy THEN move(w, b, k + 1, n, b, k)
                            ELSE copy(w, b, k + 1, n, b, k)
        w2 == destroy_at(w1, b, n - 1)
    IN IF w1.exc # None
       THEN (IF T.nothrow_move_assignable THEN Throw(w1, Terminate) ELSE w1)
       ELSE [w2 EXCEPT !.vec[v].size = n - 1, !.ret = [buffer |-> b, index |-> k]]

\* a copy that takes the other vector's block instead of allocating its own
CopyOf_Shallow(w, r) == [w EXCEPT !.new_data = w.vec[r].data]

\* Vector(const Vector& other): the new vector's data_ is left in new_data
CopyOf(w, r) ==
    LET a == Allocate(w, Size(w, r))
        c == uninitialized_copy_n(a, Buf(w, r), 0, Size(w, r), a.new_data.buffer, 0)
    IN IF a.exc # None THEN a
       ELSE IF c.exc # None THEN DestroyNewData(c)
       ELSE c

\* Vector::Vector(const Vector& other), constructing v
CopyCtor(w, v, r) ==
    LET c == CopyOf(w, r)
    IN IF c.exc # None THEN c
       ELSE [c EXCEPT !.vec[v] = [alive |-> TRUE, data |-> c.new_data, size |-> Size(w, r)],
                      !.new_data = NullMemory]

\* Vector::Vector(size_t size), constructing v
SizedCtor(w, v, size) ==
    LET a == Allocate(w, size)
        c == uninitialized_value_construct_n(a, a.new_data.buffer, 0, size)
    IN IF a.exc # None THEN a
       ELSE IF c.exc # None THEN DestroyNewData(c)
       ELSE [c EXCEPT !.vec[v] = [alive |-> TRUE, data |-> c.new_data, size |-> size],
                      !.new_data = NullMemory]

\* Vector::~Vector(), then ~RawMemory() of data_
Dtor(w, v) ==
    LET d == destroy_n(w, Buf(w, v), 0, Size(w, v))
    IN [Deallocate(d, Buf(w, v)) EXCEPT !.vec[v] = NoVector]

\* a Swap that exchanges the storage and forgets the lengths
Swap_KeepsSizes(w, v, r) ==
    [w EXCEPT !.vec[v].data = w.vec[r].data, !.vec[r].data = w.vec[v].data]

\* Vector::Swap(other)
Swap(w, v, r) ==
    [w EXCEPT !.vec[v].size = w.vec[r].size, !.vec[r].size = w.vec[v].size,
              !.vec[v].data = w.vec[r].data, !.vec[r].data = w.vec[v].data]

\* a move constructor that copies the source's members and leaves them in place
MoveCtor_KeepsSource(w, v, r) == [w EXCEPT !.vec[v] = w.vec[r]]

\* Vector::Vector(Vector&& other), constructing v
MoveCtor(w, v, r) == Swap([w EXCEPT !.vec[v] = EmptyVector], v, r)

\* Vector::operator=(Vector&& rhs)
MoveAssignment(w, v, r) == IF v # r THEN Swap(w, v, r) ELSE w

\* a copy assignment that takes a new block when rhs.size_ == Capacity()
CopyAssignment_NoRoomWhenFull(w, v, r) ==
    IF v = r THEN w
    ELSE IF Size(w, r) >= Cap(w, v)
    THEN LET c == CopyOf(w, r)
             \* Swap(rhs_copy), then ~Vector() of rhs_copy
             d == destroy_n(c, Buf(w, v), 0, Size(w, v))
         IN IF c.exc # None THEN c
            ELSE DestroyNewData([d EXCEPT !.vec[v].data = c.new_data,
                                          !.vec[v].size = Size(w, r),
                                          !.new_data = w.vec[v].data])
    ELSE IF Size(w, v) = Size(w, r)
    THEN copy(w, Buf(w, r), 0, Size(w, v), Buf(w, v), 0)
    ELSE LET size_for_copy == IF Size(w, v) < Size(w, r) THEN Size(w, v) ELSE Size(w, r)
             w1 == copy(w, Buf(w, r), 0, size_for_copy, Buf(w, v), 0)
             w2 == IF w1.exc # None THEN w1
                   ELSE IF Size(w, v) > Size(w, r)
                   THEN destroy_n(w1, Buf(w, v), size_for_copy, Size(w, v) - Size(w, r))
                   ELSE uninitialized_copy_n(w1, Buf(w, r), size_for_copy,
                                             Size(w, r) - Size(w, v), Buf(w, v), size_for_copy)
         IN IF w2.exc # None THEN w2 ELSE [w2 EXCEPT !.vec[v].size = Size(w, r)]

\* a copy assignment without the test this == &rhs
CopyAssignment_NoSelfCheck(w, v, r) ==
    IF Size(w, r) > Cap(w, v)
    THEN LET c == CopyOf(w, r)
             \* Swap(rhs_copy), then ~Vector() of rhs_copy
             d == destroy_n(c, Buf(w, v), 0, Size(w, v))
         IN IF c.exc # None THEN c
            ELSE DestroyNewData([d EXCEPT !.vec[v].data = c.new_data,
                                          !.vec[v].size = Size(w, r),
                                          !.new_data = w.vec[v].data])
    ELSE IF Size(w, v) = Size(w, r)
    THEN copy(w, Buf(w, r), 0, Size(w, v), Buf(w, v), 0)
    ELSE LET size_for_copy == IF Size(w, v) < Size(w, r) THEN Size(w, v) ELSE Size(w, r)
             w1 == copy(w, Buf(w, r), 0, size_for_copy, Buf(w, v), 0)
             w2 == IF w1.exc # None THEN w1
                   ELSE IF Size(w, v) > Size(w, r)
                   THEN destroy_n(w1, Buf(w, v), size_for_copy, Size(w, v) - Size(w, r))
                   ELSE uninitialized_copy_n(w1, Buf(w, r), size_for_copy,
                                             Size(w, r) - Size(w, v), Buf(w, v), size_for_copy)
         IN IF w2.exc # None THEN w2 ELSE [w2 EXCEPT !.vec[v].size = Size(w, r)]

\* Vector::operator=(const Vector& rhs)
CopyAssignment(w, v, r) ==
    IF v = r THEN w
    ELSE IF Size(w, r) > Cap(w, v)
    THEN LET c == CopyOf(w, r)
             \* Swap(rhs_copy), then ~Vector() of rhs_copy
             d == destroy_n(c, Buf(w, v), 0, Size(w, v))
         IN IF c.exc # None THEN c
            ELSE DestroyNewData([d EXCEPT !.vec[v].data = c.new_data,
                                          !.vec[v].size = Size(w, r),
                                          !.new_data = w.vec[v].data])
    ELSE IF Size(w, v) = Size(w, r)
    THEN copy(w, Buf(w, r), 0, Size(w, v), Buf(w, v), 0)
    ELSE LET size_for_copy == IF Size(w, v) < Size(w, r) THEN Size(w, v) ELSE Size(w, r)
             w1 == copy(w, Buf(w, r), 0, size_for_copy, Buf(w, v), 0)
             w2 == IF w1.exc # None THEN w1
                   ELSE IF Size(w, v) > Size(w, r)
                   THEN destroy_n(w1, Buf(w, v), size_for_copy, Size(w, v) - Size(w, r))
                   ELSE uninitialized_copy_n(w1, Buf(w, r), size_for_copy,
                                             Size(w, r) - Size(w, v), Buf(w, v), size_for_copy)
         IN IF w2.exc # None THEN w2 ELSE [w2 EXCEPT !.vec[v].size = Size(w, r)]

\* v[index] = x through Vector::operator[]
IndexAssign(w, v, index, x) == Assign(w, Buf(w, v), index, x, CopyAssignThrows)

\* ---- the abstract sequence each vector stands for ----
InsertAt(q, k, x) == SubSeq(q, 1, k) \o <<x>> \o SubSeq(q, k + 1, Len(q))
RemoveAt(q, k) == SubSeq(q, 1, k) \o SubSeq(q, k + 2, Len(q))
Resized(q, n) == [i \in 1..n |-> IF i <= Len(q) THEN q[i] ELSE Default]

\* the elements [0, Size()) of a vector, read slot by slot
ElemsOf(h, x) == [i \in 1..x.size |-> h[x.data.buffer][i]]
Elems(v) == ElemsOf(heap, vec[v])

\* ---- calls ----
Enter(f) == [heap |-> heap, vec |-> vec, fuse |-> f, exc |-> None,
             new_data |-> NullMemory, ret |-> NoRet, flags |-> {}]

\* A fuse longer than the call's throwing operations is no other call than f = 0.
\* The abstract sequences follow the call that returns; after a call that throws
\* they are read back from the vectors.
Return(w, op, v, r, k, x, f, m) ==
    \E u \in {w} :
        /\ f = 0 \/ u.exc # None
        /\ heap' = u.heap
        /\ vec' = u.vec
        /\ last' = [op |-> op, v |-> v, r |-> r, k |-> k, x |-> x, f |-> f, ret |-> u.ret,
                    exc |-> u.exc, flags |-> u.flags,
                    pre |-> [heap |-> heap, vec |-> vec]]
        /\ model' = IF u.exc = None THEN m ELSE [c \in Vecs |-> ElemsOf(u.heap, u.vec[c])]
        /\ T' = T

\* A call starts once the record of the previous one is dropped.
Idle == last.op = "none"

Alive(v) == vec[v].alive
Fits(v, cap) == vec[v].size = vec[v].data.capacity => GrownCapacity(vec[v].size) <= cap

CallDefaultCtor(v) ==
    /\ ~Alive(v)
    /\ Return([Enter(0) EXCEPT !.vec[v] = EmptyVector], "Vector()", v, v, 0, 0, 0,
              [model EXCEPT ![v] = <<>>])

CallSizedCtor(v, n, f) ==
    /\ ~Alive(v)
    /\ Return(SizedCtor(Enter(f), v, n), "Vector(size)", v, v, n, 0, f,
              [model EXCEPT ![v] = Resized(<<>>, n)])

CallCopyCtor(v, r, f) ==
    /\ ~Alive(v) /\ Alive(r) /\ T.copy_constructible
    /\ Return(CopyCtor(Enter(f), v, r), "Vector(const&)", v, r, 0, 0, f,
              [model EXCEPT ![v] = model[r]])

CallMoveCtor(v, r) ==
    /\ ~Alive(v) /\ Alive(r)
    /\ Return(MoveCtor(Enter(0), v, r), "Vector(&&)", v, r, 0, 0, 0,
              [model EXCEPT ![v] = model[r], ![r] = <<>>])

CallDtor(v) ==
    /\ Alive(v)
    /\ Return(Dtor(Enter(0), v), "~Vector", v, v, 0, 0, 0, [model EXCEPT ![v] = <<>>])

CallReserve(v, n, f) ==
    /\ Alive(v)
    /\ Return(Reserve(Enter(f), v, n), "Reserve", v, v, n, 0, f, model)

CallResize(v, n, f) ==
    /\ Alive(v)
    /\ Return(Resize(Enter(f), v, n), "Resize", v, v, n, 0, f,
              [model EXCEPT ![v] = Resized(@, n)])

CallPushBack(v, x, f, cap) ==
    /\ Alive(v) /\ Fits(v, cap)
    /\ Return(EmplaceBack(Enter(f), v, Outside(x)), "PushBack", v, v, vec[v].size, x, f,
              [model EXCEPT ![v] = Append(@, x)])

CallPopBack(v) ==
    /\ Alive(v)
    /\ Return(PopBack(Enter(0), v), "PopBack", v, v, 0, 0, 0,
              [model EXCEPT ![v] = SubSeq(@, 1, Len(@) - 1)])

CallInsert(v, k, x, f, cap) ==
    /\ Alive(v) /\ Fits(v, cap) /\ k \in 0..vec[v].size
    /\ Return(Emplace(Enter(f), v, k, Outside(x)), "Insert", v, v, k, x, f,
              [model EXCEPT ![v] = InsertAt(@, k, x)])

\* the abstract sequence once element j was the source of a move
Taken(q, j, rvalue) == IF rvalue THEN [q EXCEPT ![j + 1] = MovedFrom] ELSE q

\* v.PushBack(v[j]) and v.PushBack(std::move(v[j])): the argument is element j of
\* the vector itself.  The record keeps the index j as x.
CallPushBackElement(v, j, rvalue, cap) ==
    /\ Alive(v) /\ Fits(v, cap) /\ j \in 0..(vec[v].size - 1)
    /\ Return(EmplaceBack(Enter(0), v, Element(vec[v].data.buffer, j, rvalue)),
              IF rvalue THEN "PushBack(std::move(v[j]))" ELSE "PushBack(v[j])",
              v, v, vec[v].size, j, 0,
              [model EXCEPT ![v] = Append(Taken(@, j, rvalue), @[j + 1])])

\* v.Insert(v.begin() + k, v[j]) and v.Insert(v.begin() + k, std::move(v[j]))
CallInsertElement(v, k, j, rvalue, cap) ==
    /\ Alive(v) /\ Fits(v, cap) /\ k \in 0..vec[v].size /\ j \in 0..(vec[v].size - 1)
    /\ Return(Emplace(Enter(0), v, k, Element(vec[v].data.buffer, j, rvalue)),
              IF rvalue THEN "Insert(pos, std::move(v[j]))" ELSE "Insert(pos, v[j])",
              v, v, k, j, 0,
              [model EXCEPT ![v] = InsertAt(Taken(@, j, rvalue), k, @[j + 1])])

CallErase(v, k, f) ==
    /\ Alive(v) /\ k \in 0..(vec[v].size - 1)
    /\ Return(Erase(Enter(f), v, k), "Erase", v, v, k, 0, f,
              [model EXCEPT ![v] = RemoveAt(@, k)])

CallIndexAssign(v, k, x, f) ==
    /\ Alive(v) /\ k \in 0..(vec[v].size - 1)
    /\ Return(IndexAssign(Enter(f), v, k, x), "operator[]", v, v, k, x, f,
              [model EXCEPT ![v][k + 1] = x])

CallCopyAssignment(v, r, f) ==
    /\ Alive(v) /\ Alive(r) /\ T.copy_constructible
    /\ Return(CopyAssignment(Enter(f), v, r), "operator=(const&)", v, r, 0, 0, f,
              [model EXCEPT ![v] = model[r]])

CallMoveAssignment(v, r) ==
    /\ Alive(v) /\ Alive(r)
    /\ Return(MoveAssignment(Enter(0), v, r), "operator=(&&)", v, r, 0, 0, 0,
              [model EXCEPT ![v] = model[r], ![r] = model[v]])

CallSwap(v, r) ==
    /\ Alive(v) /\ Alive(r)
    /\ Return(Swap(Enter(0), v, r), "Swap", v, r, 0, 0, 0,
              [model EXCEPT ![v] = model[r], ![r] = model[v]])

NoCall == [op |-> "none", v |-> "a", r |-> "a", k |-> 0, x |-> 0, f |-> 0, ret |-> NoRet,
           exc |-> None, flags |-> {},
           pre |-> [heap |-> <<>>, vec |-> [v \in Vecs |-> NoVector]]]

Init ==
    /\ heap = <<>>
    /\ vec = [v \in Vecs |-> NoVector]
    /\ T \in Types
    /\ last = NoCall
    /\ model = [v \in Vecs |-> <<>>]
    /\ pushes = 0
    /\ pops = 0

\* The caller lets go of what it kept of the finished call (its snapshot of the
\* vectors before the call and the returned pointer); the vectors are untouched.
\* std::terminate() ends the program.
Forget ==
    /\ last.op # "none" /\ last.exc # Terminate
    /\ last' = NoCall
    /\ UNCHANGED <<heap, vec, T, model, pushes, pops>>

NotCounted == UNCHANGED <<pushes, pops>>

\* the calls on one vector, each with its fuse drawn from fs, capacities up to cap
OneVector(vs, fs, cap) ==
    \/ Idle /\ \E v \in vs : CallDefaultCtor(v) /\ NotCounted
    \/ Idle /\ \E v \in vs, n \in 0..cap, f \in fs : CallSizedCtor(v, n, f) /\ NotCounted
    \/ Idle /\ \E v \in vs : CallDtor(v) /\ NotCounted
    \/ Idle /\ \E v \in vs, n \in 0..cap, f \in fs : CallReserve(v, n, f) /\ NotCounted
    \/ Idle /\ \E v \in vs, n \in 0..cap, f \in fs : CallResize(v, n, f) /\ NotCounted
    \/ Idle /\ \E v \in vs, x \in Values, f \in fs : CallPushBack(v, x, f, cap) /\ NotCounted
    \/ Idle /\ \E v \in vs : CallPopBack(v) /\ NotCounted
    \/ Idle /\ \E v \in vs, k \in 0..cap, x \in Values, f \in fs :
           CallInsert(v, k, x, f, cap) /\ NotCounted
    \/ Idle /\ \E v \in vs, k \in 0..cap, f \in fs : CallErase(v, k, f) /\ NotCounted
    \/ Idle /\ \E v \in vs, k \in 0..cap, x \in Values, f \in fs :
           CallIndexAssign(v, k, x, f) /\ NotCounted

\* the calls that involve two vectors
TwoVectors(fs) ==
    \/ Idle /\ \E v \in Vecs, f \in fs : CallCopyCtor(v, Other(v), f) /\ NotCounted
    \/ Idle /\ \E v \in Vecs : CallMoveCtor(v, Other(v)) /\ NotCounted
    \/ Idle /\ \E v \in Vecs, f \in fs : CallCopyAssignment(v, Other(v), f) /\ NotCounted
    \/ Idle /\ \E v \in Vecs : CallMoveAssignment(v, Other(v)) /\ NotCounted
    \/ Idle /\ \E v \in Vecs : CallSwap(v, Other(v)) /\ NotCounted

\* a vector assigned to itself
SelfAssign(fs) ==
    \/ Idle /\ \E v \in Vecs, f \in fs : CallCopyAssignment(v, v, f) /\ NotCounted
    \/ Idle /\ \E v \in Vecs : CallMoveAssignment(v, v) /\ NotCounted

\* One vector, every call on it, every failure.
Next ==
    \/ OneVector({"a"}, 0..MaxFault, MaxCap)
    \/ Forget

Spec == Init /\ [][Next]_vars

\* Two vectors, every call, no failure.
NextPair ==
    \/ OneVector(Vecs, {0}, MaxPairCap)
    \/ TwoVectors({0})
    \/ Forget

\* Without failures StringLike and IntLike make the same calls do the same.
InitPair == Init /\ T \in {StringLike, ThrowingMove}

SpecPair == InitPair /\ [][NextPair]_vars

\* Two vectors, self-assignment included.  A call on two vectors fails at any of
\* its steps; a call on one vector fails at its first throwing step, which is the
\* allocation whenever the call allocates (its later steps fail under Spec).
NextMix ==
    \/ OneVector(Vecs, {0, 1}, MaxMixCap)
    \/ TwoVectors(0..MaxFault)
    \/ SelfAssign(0..MaxFault)
    \/ Forget

SpecMix == Init /\ [][NextMix]_vars

\* One vector, every call on it, no failure: every call of a sequence completes.
NextSeq ==
    \/ OneVector({"a"}, {0}, MaxCap)
    \/ Forget

SpecSeq == Init /\ [][NextSeq]_vars

\* An empty vector, then PushBack and PopBack alone.  pushes and pops count the
\* calls that returned; PopBack is called on a non-empty vector.
InitPushPop ==
    /\ heap = <<>>
    /\ vec = [v \in Vecs |-> IF v = "a" THEN EmptyVector ELSE NoVector]
    /\ T \in Types
    /\ last = NoCall
    /\ model = [v \in Vecs |-> <<>>]
    /\ pushes = 0
    /\ pops = 0

NextPushPop ==
    \/ /\ Idle /\ pushes < MaxCalls
       /\ \E x \in Values, f \in 0..MaxFault : CallPushBack("a", x, f, MaxCap)
       /\ pushes' = IF last'.exc = None THEN pushes + 1 ELSE pushes
       /\ pops' = pops
    \/ /\ Idle /\ vec["a"].size > 0
       /\ CallPopBack("a")
       /\ pops' = pops + 1
       /\ pushes' = pushes
    \/ Forget

SpecPushPop == InitPushPop /\ [][NextPushPop]_vars

\* One vector, every call completing, PushBack and Insert also with an element
\* of the vector itself as the argument.
NextAlias ==
    \/ OneVector({"a"}, {0}, MaxCap)
    \/ Idle /\ \E j \in 0..MaxCap, rvalue \in BOOLEAN :
           CallPushBackElement("a", j, rvalue, MaxCap) /\ NotCounted
    \/ Idle /\ \E k \in 0..MaxCap, j \in 0..MaxCap, rvalue \in BOOLEAN :
           CallInsertElement("a", k, j, rvalue, MaxCap) /\ NotCounted
    \/ Forget

SpecAlias == Init /\ [][NextAlias]_vars

\* An empty vector of any element type, then PushBack and Erase, whose
\* assignments fail at any step.
InitErase ==
    /\ heap = <<>>
    /\ vec = [v \in Vecs |-> IF v = "a" THEN EmptyVector ELSE NoVector]
    /\ T \in AllTypes
    /\ last = NoCall
    /\ model = [v \in Vecs |-> <<>>]
    /\ pushes = 0
    /\ pops = 0

NextErase ==
    \/ Idle /\ \E x \in Values : CallPushBack("a", x, 0, MaxCap) /\ NotCounted
    \/ Idle /\ \E k \in 0..MaxCap, f \in 0..MaxFault : CallErase("a", k, f) /\ NotCounted
    \/ Forget

SpecErase == InitErase /\ [][NextErase]_vars

\* ---- what a finished call is compared with ----
Returned(op) == last.op = op /\ last.exc = None
Pre(v) == last.pre.vec[v]
PreElems(v) == ElemsOf(last.pre.heap, last.pre.vec[v])
Slots(h, x) == IF x.data.buffer = nullptr THEN <<>> ELSE h[x.data.buffer]

\* C1 (as amended): after move construction or move assignment the destination
\* holds exactly the source's prior elements in their original order; the source
\* has Size() == 0 after move construction and after move assignment into an empty
\* destination, and after any move assignment it holds the destination's prior
\* elements and storage.
C1_MoveExchanges ==
    /\ Returned("Vector(&&)") =>
          /\ Elems(last.v) = PreElems(last.r)
          /\ vec[last.v].data = Pre(last.r).data
          /\ vec[last.r].size = 0
          /\ vec[last.r].data = NullMemory
    /\ Returned("operator=(&&)") =>
          /\ Elems(last.v) = PreElems(last.r)
          /\ vec[last.v].data = Pre(last.r).data
          /\ Elems(last.r) = PreElems(last.v)
          /\ vec[last.r].data = Pre(last.v).data
          /\ (Pre(last.v).size = 0 => vec[last.r].size = 0)

C1_Witness ==
    /\ Returned("operator=(&&)")
    /\ Pre(last.r).size >= 2 /\ Pre(last.v).size >= 1
    /\ PreElems(last.r)[1] # PreElems(last.r)[2]
    /\ Elems(last.v) = PreElems(last.r)

\* C1 as stated: after move construction or move assignment the source has
\* Size() == 0 and the destination holds the source's prior elements.
C1_SourceEmptyAfterMove ==
    (Returned("Vector(&&)") \/ Returned("operator=(&&)")) =>
        /\ vec[last.r].size = 0
        /\ Elems(last.v) = PreElems(last.r)

\* C2: Insert/Emplace of V at position k of a vector of size N, 0 <= k <= N, with
\* or without spare capacity, yields Size() == N+1, element k equal to V, elements
\* [0,k) unchanged, elements [k+1,N+1) equal to the original [k,N), and returns a
\* pointer to index k of the vector's current storage.
C2_InsertShifts ==
    Returned("Insert") =>
        LET v == last.v
            k == last.k
            N == Pre(v).size
        IN /\ vec[v].size = N + 1
           /\ Elems(v)[k + 1] = last.x
           /\ \A i \in 1..k : Elems(v)[i] = PreElems(v)[i]
           /\ \A i \in (k + 2)..(N + 1) : Elems(v)[i] = PreElems(v)[i - 1]
           /\ last.ret = [buffer |-> vec[v].data.buffer, index |-> k]

C2_Witness ==
    /\ Returned("Insert")
    /\ Pre(last.v).size = 3 /\ Pre(last.v).data.capacity = 4 /\ last.k = 1
    /\ PreElems(last.v)[1] # last.x /\ PreElems(last.v)[2] = last.x
    /\ PreElems(last.v)[3] # last.x
    /\ Elems(last.v) = InsertAt(PreElems(last.v), 1, last.x)

\* C3: Erase at position k of a vector of size N >= 1, 0 <= k < N, yields
\* Size() == N-1, elements [0,k) unchanged, elements [k,N-1) equal to the original
\* [k+1,N), Capacity() and the storage unchanged, and returns a pointer to index k,
\* which is end() when the last element was erased.
C3_EraseShifts ==
    Returned("Erase") =>
        LET v == last.v
            k == last.k
            N == Pre(v).size
        IN /\ vec[v].size = N - 1
           /\ \A i \in 1..k : Elems(v)[i] = PreElems(v)[i]
           /\ \A i \in (k + 1)..(N - 1) : Elems(v)[i] = PreElems(v)[i + 1]
           /\ vec[v].data = Pre(v).data
           /\ last.ret = [buffer |-> vec[v].data.buffer, index |-> k]
           /\ (k = N - 1 => last.ret.index = vec[v].size)

C3_Witness ==
    /\ Returned("Erase")
    /\ Pre(last.v).size = 4 /\ last.k = 1
    /\ PreElems(last.v)[2] # PreElems(last.v)[3] /\ PreElems(last.v)[3] # PreElems(last.v)[4]
    /\ Elems(last.v) = RemoveAt(PreElems(last.v), 1)

\* C4: starting from an empty vector, after any sequence of PushBack and PopBack
\* calls (PopBack on a non-empty vector) Size() is the number of PushBack calls
\* minus the number of PopBack calls; no call lowers Capacity(); a call that changes
\* Capacity() takes it from 0 to 1 or to at least twice its prior non-zero value.
C4_PushPopSizeAndGrowth ==
    /\ vec["a"].size = pushes - pops
    /\ last.op \in {"PushBack", "PopBack"} =>
          LET c0 == Pre("a").data.capacity
              c1 == vec["a"].data.capacity
          IN /\ c1 >= c0
             /\ c1 # c0 => \/ c0 = 0 /\ c1 = 1
                           \/ c0 > 0 /\ c1 >= 2 * c0

C4_Witness ==
    /\ Returned("PushBack")
    /\ Pre("a").data.capacity = 2 /\ vec["a"].data.capacity = 4
    /\ pops >= 1 /\ pushes >= 4
    /\ vec["a"].size = 3

\* C5: after any sequence of PushBack, PopBack, Insert, Erase, Resize, Reserve and
\* assignment through operator[], Size() is the length of the abstract sequence
\* and operator[](i) is its element i, however often the storage was replaced.
C5_IndexedAccessRefinesSequence ==
    vec["a"].alive =>
        /\ vec["a"].size = Len(model["a"])
        /\ \A i \in 0..(vec["a"].size - 1) :
              heap[vec["a"].data.buffer][i + 1] = model["a"][i + 1]

C5_Witness ==
    /\ Returned("Insert")
    /\ vec["a"].data.buffer # Pre("a").data.buffer
    /\ Pre("a").data.buffer # nullptr
    /\ Len(model["a"]) = 3
    /\ model["a"][1] # model["a"][2]
    /\ Elems("a") = model["a"]

\* C6: a copy (copy construction or copy assignment) of a vector of N elements
\* has size N and equal elements; the two vectors never share a storage block;
\* and a call on one vector leaves the other's size, storage and contents as
\* they were.
C6_CopyIsEqualAndIndependent ==
    /\ (Returned("Vector(const&)") \/ Returned("operator=(const&)")) =>
          /\ vec[last.v].size = Pre(last.r).size
          /\ Elems(last.v) = PreElems(last.r)
          /\ Elems(last.r) = PreElems(last.r)
    /\ vec["a"].data.buffer # nullptr => vec["a"].data.buffer # vec["b"].data.buffer
    /\ (last.op \in {"operator[]", "PushBack", "PopBack", "Insert", "Erase", "Resize",
                     "Reserve"}) =>
          /\ vec[Other(last.v)] = Pre(Other(last.v))
          /\ Slots(heap, vec[Other(last.v)]) = Slots(last.pre.heap, Pre(Other(last.v)))

C6_Witness ==
    /\ Returned("Vector(const&)")
    /\ Pre(last.r).size = 3
    /\ PreElems(last.r)[1] # PreElems(last.r)[2]
    /\ Elems(last.v) = Elems(last.r)
    /\ vec[last.v].data.buffer # vec[last.r].data.buffer

\* C7: Reserve(c) with c <= Capacity() changes nothing (size, capacity, storage
\* block, element values); Reserve(c) with c > Capacity() leaves Size() and every
\* element value unchanged and makes Capacity() exactly c.
C7_ReserveFrame ==
    /\ (last.op = "Reserve" /\ last.k <= Pre(last.v).data.capacity) =>
          /\ last.exc = None
          /\ vec = last.pre.vec
          /\ heap = last.pre.heap
    /\ (Returned("Reserve") /\ last.k > Pre(last.v).data.capacity) =>
          /\ vec[last.v].size = Pre(last.v).size
          /\ Elems(last.v) = PreElems(last.v)
          /\ vec[last.v].data.capacity = last.k

C7_Witness ==
    /\ Returned("Reserve")
    /\ Pre(last.v).data.capacity = 2 /\ last.k = 3
    /\ Pre(last.v).size = 2
    /\ PreElems(last.v)[1] # PreElems(last.v)[2]
    /\ Elems(last.v) = PreElems(last.v)

\* C8: Resize(n) on a vector of size s yields Size() == n.  n < s: the elements
\* [n,s) are destroyed, [0,n) are unchanged, the storage and Capacity() are
\* unchanged.  n > s: [0,s) are unchanged, [s,n) hold T(), Capacity() is the larger
\* of n and the prior capacity.  n == s: nothing changes.
C8_Resize ==
    Returned("Resize") =>
        LET v == last.v
            n == last.k
            s == Pre(v).size
            c == Pre(v).data.capacity
        IN /\ vec[v].size = n
           /\ n < s =>
                 /\ \A i \in 1..n : Elems(v)[i] = PreElems(v)[i]
                 /\ \A i \in (n + 1)..s : heap[vec[v].data.buffer][i] = Uninit
                 /\ vec[v].data = Pre(v).data
           /\ n > s =>
                 /\ \A i \in 1..s : Elems(v)[i] = PreElems(v)[i]
                 /\ \A i \in (s + 1)..n : Elems(v)[i] = Default
                 /\ vec[v].data.capacity = (IF n > c THEN n ELSE c)
           /\ n = s => vec = last.pre.vec /\ heap = last.pre.heap

C8_Witness ==
    /\ Returned("Resize")
    /\ Pre(last.v).size = 2 /\ Pre(last.v).data.capacity = 2 /\ last.k = 4
    /\ PreElems(last.v)[1] # Default /\ PreElems(last.v)[2] # Default
    /\ Elems(last.v) = Resized(PreElems(last.v), 4)

\* C9: copy assignment a = b between distinct vectors gives a b's size and
\* elements and leaves b unchanged.  b.Size() <= a.Capacity(): a keeps its storage
\* block and Capacity(), and the slots of its excess old elements are destroyed.
\* b.Size() > a.Capacity(): a ends with a newly allocated block of capacity
\* exactly b.Size().
C9_CopyAssignment ==
    Returned("operator=(const&)") =>
        LET a == last.v
            b == last.r
        IN /\ vec[a].size = Pre(b).size
           /\ Elems(a) = PreElems(b)
           /\ vec[b] = Pre(b)
           /\ Slots(heap, vec[b]) = Slots(last.pre.heap, Pre(b))
           /\ Pre(b).size <= Pre(a).data.capacity =>
                 /\ vec[a].data = Pre(a).data
                 /\ \A i \in (Pre(b).size + 1)..Pre(a).size :
                       heap[vec[a].data.buffer][i] = Uninit
           /\ Pre(b).size > Pre(a).data.capacity =>
                 /\ vec[a].data.capacity = Pre(b).size
                 /\ vec[a].data.buffer \notin DOMAIN last.pre.heap
                 /\ vec[a].data.buffer \in DOMAIN heap

C9_Witness ==
    /\ Returned("operator=(const&)")
    /\ Pre(last.v).size = 1 /\ Pre(last.r).size = 3 /\ Pre(last.v).data.capacity = 3
    /\ PreElems(last.r)[2] # PreElems(last.r)[3]
    /\ PreElems(last.v)[1] # PreElems(last.r)[1]
    /\ Elems(last.v) = PreElems(last.r)

\* C10: for a copy-constructible T whose move construction may fail, when the
\* construction of the new element or the transfer of an existing element fails
\* in a call that needs new storage (Reserve above capacity, PushBack/EmplaceBack
\* or Emplace/Insert with Size() == Capacity()), the vector's storage block,
\* Size(), Capacity() and every element value are what they were before the call.
NeedsNewStorage ==
    \/ last.op = "Reserve" /\ last.k > Pre(last.v).data.capacity
    \/ last.op \in {"PushBack", "Insert"} /\ Pre(last.v).size = Pre(last.v).data.capacity

C10_FailedGrowthChangesNothing ==
    (/\ T.copy_constructible /\ ~T.nothrow_move_constructible
     /\ last.exc = ElemExc /\ NeedsNewStorage) =>
        /\ vec[last.v] = Pre(last.v)
        /\ Elems(last.v) = PreElems(last.v)

C10_Witness ==
    /\ T = ThrowingMove
    /\ last.op = "Insert" /\ last.exc = ElemExc /\ last.f = 4
    /\ Pre(last.v).size = 2 /\ Pre(last.v).data.capacity = 2 /\ last.k = 1
    /\ PreElems(last.v)[1] # PreElems(last.v)[2]
    /\ Elems(last.v) = PreElems(last.v)

\* ---- the representation invariant of Vector<T> ----
\* exactly the slots [0, size_) of data_ hold elements, the others are raw
LiveExactly(h, x) ==
    /\ x.size <= x.data.capacity
    /\ \A i \in 1..x.data.capacity : (h[x.data.buffer][i] # Uninit) <=> (i <= x.size)

\* C11: for a copy-constructible T, when an element construction, copy, move or
\* assignment fails at any step of a mutating call, the vector left behind has
\* exactly the slots [0,Size()) live and every slot of [Size(),Capacity()) raw.
C11_FailureKeepsInvariant ==
    (T.copy_constructible /\ last.exc = ElemExc /\ vec[last.v].alive) =>
        LiveExactly(heap, vec[last.v])

\* Insert/Emplace before end() with spare capacity: the call runs Moving
ShiftsInPlace ==
    \/ last.op = "Erase"
    \/ /\ last.op = "Insert"
       /\ last.k < Pre(last.v).size
       /\ Pre(last.v).size < Pre(last.v).data.capacity

\* C12: when a move construction or an assignment of the shift fails in
\* Insert/Emplace before end() with spare capacity, or in Erase, Size() and the
\* values of the elements [0,Size()) are what they were before the call.
C12_FailedShiftChangesNothing ==
    (last.exc = ElemExc /\ ShiftsInPlace) =>
        /\ vec[last.v].size = Pre(last.v).size
        /\ Elems(last.v) = PreElems(last.v)

\* C13: in every call that allocates (sized and copy construction, Reserve,
\* growing Resize, PushBack/EmplaceBack and Emplace/Insert at full capacity, copy
\* assignment from a larger source) the allocation comes before any live element
\* is moved, assigned or destroyed: when it fails, every vector's storage block,
\* Size(), Capacity() and element values are what they were before the call.
C13_FailedAllocationChangesNothing ==
    last.exc = BadAlloc =>
        /\ vec = last.pre.vec
        /\ heap = last.pre.heap
        /\ last.flags = {}

C13_Witness ==
    /\ last.op = "operator=(const&)" /\ last.exc = BadAlloc
    /\ Pre(last.v).size = 1 /\ Pre(last.v).data.capacity = 1 /\ Pre(last.r).size = 2
    /\ PreElems(last.v)[1] # PreElems(last.r)[1]
    /\ Elems(last.v) = PreElems(last.v)

\* the storage blocks the vectors own
Owned == {vec[v].data.buffer : v \in Vecs} \ {nullptr}

\* C14: over any sequence of calls, failures and exchanges of storage included,
\* no block is released twice or while a vector still owns it, no two vectors own
\* the same block, every allocated block is owned by a vector (so none remains
\* once all vectors are destroyed), a RawMemory of capacity 0 has no block and its
\* release changes nothing.
C14_BlocksReleasedOnce ==
    /\ DoubleFree \notin last.flags
    /\ DOMAIN heap = Owned
    /\ \A v \in Vecs : vec[v].data.buffer # nullptr =>
          /\ vec[v].alive
          /\ vec[Other(v)].data.buffer # vec[v].data.buffer
          /\ Len(heap[vec[v].data.buffer]) = vec[v].data.capacity
    /\ \A v \in Vecs : vec[v].data.capacity = 0 <=> vec[v].data.buffer = nullptr
    /\ (last.op = "~Vector" /\ Pre(last.v).data.capacity = 0) => heap = last.pre.heap
    /\ (\A v \in Vecs : ~vec[v].alive) => heap = <<>>

C14_Witness ==
    /\ Returned("operator=(const&)")
    /\ Pre(last.v).data.capacity = 1 /\ Pre(last.r).size = 2
    /\ Pre(last.v).data.buffer \notin DOMAIN heap
    /\ Cardinality(DOMAIN heap) = 2
    /\ DOMAIN heap = Owned

\* C15: after any sequence of calls that all complete normally, every vector has
\* 0 <= Size() <= Capacity(), exactly the slots [0,Size()) hold live elements, the
\* slots [Size(),Capacity()) are raw, and its storage address is null if and only
\* if Capacity() == 0.
C15_RepresentationInvariant ==
    \A v \in Vecs : vec[v].alive =>
        /\ 0 <= vec[v].size /\ vec[v].size <= vec[v].data.capacity
        /\ LiveExactly(heap, vec[v])
        /\ vec[v].data.buffer = nullptr <=> vec[v].data.capacity = 0

C15_Witness ==
    /\ Returned("Erase")
    /\ Pre(last.v).size = 3 /\ Pre(last.v).data.capacity = 3 /\ last.k = 0
    /\ vec[Other(last.v)].alive /\ vec[Other(last.v)].data.capacity = 0
    /\ heap[vec[last.v].data.buffer][3] = Uninit
    /\ LiveExactly(heap, vec[last.v])

\* C16: at every step inside every call no slot is constructed while it holds a
\* live element, no slot is read, assigned to or moved from while it is raw, no
\* slot is destroyed twice, and no block has two owners.
C16_EveryStepWellDefined ==
    /\ last.flags \cap {ConstructOnLive, UseOfRaw, DestroyOfRaw} = {}
    /\ \A v \in Vecs : vec[v].data.buffer # nullptr =>
          vec[Other(v)].data.buffer # vec[v].data.buffer

\* C17: for every combination of element-type capabilities, a failure of the
\* element assignment Erase performs is reported to the caller: it never leaves
\* an Erase declared noexcept, which ends the program.
C17_EraseFailureIsReported ==
    last.op = "Erase" => last.exc # Terminate

\* C18: on every exit path of every call, every element that was constructed is
\* destroyed before the block holding it is released; in particular when
\* EmplaceBack or Emplace has constructed the new element in a new block and a
\* later relocating copy fails.
C18_NoElementLostWithItsBlock ==
    LeakedElement \notin last.flags

\* the calls whose argument is element j of the vector they are made on
ElementArgument ==
    last.op \in {"PushBack(v[j])", "PushBack(std::move(v[j]))",
                 "Insert(pos, v[j])", "Insert(pos, std::move(v[j]))"}

\* C19: when the value passed to PushBack, Insert or Emplace is a reference to
\* element j of the same vector, the inserted element equals the value element j
\* held before the call, with and without reallocation, for every insertion
\* position relative to j.
C19_ElementArgumentKeepsItsValue ==
    (ElementArgument /\ last.exc = None) =>
        LET v == last.v
            k == last.k
            j == last.x
        IN /\ vec[v].size = Pre(v).size + 1
           /\ Elems(v)[k + 1] = PreElems(v)[j + 1]
           /\ last.ret = [buffer |-> vec[v].data.buffer, index |-> k]

C19_Witness ==
    /\ last.op = "Insert(pos, v[j])" /\ last.exc = None
    /\ Pre(last.v).size = 3 /\ Pre(last.v).data.capacity = 4
    /\ last.k = 0 /\ last.x = 2
    /\ PreElems(last.v)[3] # PreElems(last.v)[2]
    /\ Elems(last.v)[1] = PreElems(last.v)[3]
    /\ Elems(last.v)[4] = PreElems(last.v)[3]

SelfAssigned ==
    last.op \in {"operator=(const&)", "operator=(&&)"} /\ last.v = last.r

\* C20: copy-assigning or move-assigning a vector to itself leaves its storage
\* block, Size(), Capacity() and every element value unchanged and runs no
\* operation of T: nothing is constructed, assigned or destroyed, so nothing can
\* fail.
C20_SelfAssignmentChangesNothing ==
    SelfAssigned =>
        /\ last.exc = None
        /\ vec = last.pre.vec
        /\ heap = last.pre.heap
        /\ last.flags = {}

C20_Witness ==
    /\ SelfAssigned /\ last.op = "operator=(const&)"
    /\ T = ThrowingMove
    /\ vec[last.v].size = 2 /\ vec[last.v].data.capacity = 2
    /\ Elems(last.v)[1] # Elems(last.v)[2]
    /\ heap = last.pre.heap

====
